---- MODULE Spec2Model ----
(***************************************************************************)
(* Health & Nutrition coach API: the nutrition-goal calculators of         *)
(* HealthCoach, the validation of generated meal and workout plans, and    *)
(* the HTTP handlers that map their outcomes to responses.                 *)
(*                                                                         *)
(* Numbers.  The calculators work on floats.  Every quantity here is kept  *)
(* exactly, as an integer numerator over a fixed denominator:              *)
(*   bmr              in quarters        (6.25 = 25/4)                     *)
(*   multipliers      in fortieths       (1.375 = 55/40)                   *)
(*   tdee, calories   in 1/160                                             *)
(*   macro ratios     in twentieths      (0.45 = 9/20)                     *)
(* and round() is Python's round-half-to-even on the exact quotient.       *)
(***************************************************************************)
EXTENDS Integers, Sequences, FiniteSets, TLC

VARIABLES
    profile,     \* the profile of the call or request at hand
    calc,        \* locals and outcome of the last nutrition-goal computation
    route,       \* route of the HTTP request at hand, "none" when there is none
    pc,          \* position of the request: "idle", "awaiting", "done"
    llmCalls,    \* chat-completion calls issued for the request at hand
    calcCalls,   \* calculator invocations made for the request at hand
    llm,         \* what the chat-completion call of the request at hand gave
    coach,       \* what the HealthCoach method gave its caller (plan or error)
    resp,        \* the HTTP response of the request at hand
    meal_data,   \* the body of the /analyze-meal request at hand
    client,      \* the remote address of the request at hand
    hits,        \* the limiter's counters, by remote address and route
    skipped,     \* by address and route: a request of the counter's window
                 \* was answered before the limiter saw it
    memo         \* history: the first result of /nutrition-goals, by profile

vars == <<profile, calc, route, pc, llmCalls, calcCalls, llm, coach, resp,
          meal_data, client, hits, skipped, memo>>

----------------------------------------------------------------------------
(* Profiles *)

Activities == {"sedentary", "light", "moderate", "active", "very_active"}
\* strings outside the multiplier table
UnknownActivities == {"extreme", "Moderate"}
GoalNames == {"weight_loss", "muscle_gain", "maintenance"}

\* profiles handed directly to the calculators (no boundary in between)
CalcAges == {1, 30, 120}
CalcWeights == {1, 69, 70, 500}
CalcHeights == {1, 175, 300}
CalcProfiles ==
    [age : CalcAges, weight : CalcWeights, height : CalcHeights,
     goals : SUBSET GoalNames,
     activity_level : Activities \cup UnknownActivities]

----------------------------------------------------------------------------
(* models.py: HealthInput and NutritionGoals *)

\* activity_level: str = Field(..., pattern="^(light|moderate|active|very_active)$")
HealthInputActivities == {"light", "moderate", "active", "very_active"}

HealthInputValid(p) ==
    /\ p.age > 0 /\ p.age <= 120
    /\ p.weight > 0 /\ p.weight <= 500
    /\ p.height > 0 /\ p.height <= 300
    /\ p.goals # {}
    /\ p.activity_level \in HealthInputActivities

\* NutritionGoals: every field is Field(..., ge=0)
NutritionGoalsValid(g) ==
    /\ g.calories >= 0 /\ g.protein >= 0 /\ g.carbs >= 0
    /\ g.fat >= 0 /\ g.fiber >= 0

----------------------------------------------------------------------------
(* Arithmetic *)

\* int(num/den): truncation toward zero
Round_Truncate(num, den) ==
    IF num >= 0 THEN num \div den ELSE -((-num) \div den)

\* Python round(num/den), den > 0: nearest integer, ties to the even one
Round(num, den) ==
    LET q == num \div den
        r == num % den
    IN  IF 2 * r < den THEN q
        ELSE IF 2 * r > den THEN q + 1
        ELSE IF q % 2 = 0 THEN q ELSE q + 1

\* (10 * weight) + (6.25 * height) - (5 * age), in quarters
Bmr4(p) == 40 * p.weight + 25 * p.height - 20 * p.age

\* activity_multipliers, in fortieths
activity_multipliers ==
    [sedentary |-> 48, light |-> 55, moderate |-> 62, active |-> 69,
     very_active |-> 76]

\* dict.get(key, default)
DictGet(d, k, default) == IF k \in DOMAIN d THEN d[k] ELSE default

----------------------------------------------------------------------------
(* HealthCoach.get_nutrition_goals *)

\* activity_multipliers.get(activity_level, 1.55)
GoalsMultiplier(level) == DictGet(activity_multipliers, level, 62)

\* the two goals tested in the order of the ratio selection
calorie_adjustment_MuscleFirst(goals) ==
    IF "muscle_gain" \in goals THEN 300
    ELSE IF "weight_loss" \in goals THEN -500
    ELSE 0

calorie_adjustment(goals) ==
    IF "weight_loss" \in goals THEN -500
    ELSE IF "muscle_gain" \in goals THEN 300
    ELSE 0

\* protein / fat / carb ratio, in twentieths
MacroRatios(goals) ==
    IF "muscle_gain" \in goals THEN [protein |-> 7, fat |-> 4, carb |-> 9]
    ELSE IF "weight_loss" \in goals THEN [protein |-> 8, fat |-> 6, carb |-> 6]
    ELSE [protein |-> 6, fat |-> 5, carb |-> 9]

\* a get_nutrition_goals that answers from the computation before it
get_nutrition_goals_Stale(p) ==
    IF calc.fn = "get_nutrition_goals" THEN calc
    ELSE LET mult   == GoalsMultiplier(p.activity_level)
             tdee   == Bmr4(p) * mult
             adj    == calorie_adjustment(p.goals)
             final  == tdee + 160 * adj
             ratios == MacroRatios(p.goals)
             goals  == [calories |-> Round(final, 160),
                        protein  |-> Round(final * ratios.protein, 160 * 20 * 4),
                        carbs    |-> Round(final * ratios.carb, 160 * 20 * 4),
                        fat      |-> Round(final * ratios.fat, 160 * 20 * 9),
                        fiber    |-> Round(p.weight, 2)]
         IN  [fn |-> "get_nutrition_goals",
              multiplier |-> mult, tdee |-> tdee, adjustment |-> adj,
              final_calories |-> final, ratios |-> ratios,
              ok |-> NutritionGoalsValid(goals),
              goals |-> goals]

get_nutrition_goals(p) ==
    LET mult   == GoalsMultiplier(p.activity_level)
        tdee   == Bmr4(p) * mult                                \* in 1/160
        adj    == calorie_adjustment(p.goals)
        final  == tdee + 160 * adj                              \* in 1/160
        ratios == MacroRatios(p.goals)
        goals  == [calories |-> Round(final, 160),
                   protein  |-> Round(final * ratios.protein, 160 * 20 * 4),
                   carbs    |-> Round(final * ratios.carb, 160 * 20 * 4),
                   fat      |-> Round(final * ratios.fat, 160 * 20 * 9),
                   fiber    |-> Round(p.weight, 2)]
    IN  [fn |-> "get_nutrition_goals",
         multiplier |-> mult, tdee |-> tdee, adjustment |-> adj,
         final_calories |-> final, ratios |-> ratios,
         ok |-> NutritionGoalsValid(goals),   \* else pydantic ValidationError
         goals |-> goals]

----------------------------------------------------------------------------
(* HealthCoach._calculate_nutrition_goals *)

_calculate_nutrition_goals(p) ==
    LET mult  == DictGet(activity_multipliers, p.activity_level, 48)
        tdee  == Bmr4(p) * mult
        adj   == IF "weight_loss" \in p.goals THEN -500
                 ELSE IF "muscle_gain" \in p.goals THEN 300 ELSE 0
        final == tdee + 160 * adj
        goals == [calories |-> Round(final, 160),
                  protein  |-> Round(p.weight * 22, 10),
                  carbs    |-> Round(final * 9, 160 * 20 * 4),
                  fat      |-> Round(final * 5, 160 * 20 * 9),
                  fiber    |-> 30]
    IN  [fn |-> "_calculate_nutrition_goals",
         multiplier |-> mult, tdee |-> tdee, adjustment |-> adj,
         final_calories |-> final,
         ratios |-> [protein |-> 0, fat |-> 5, carb |-> 9],
         ok |-> NutritionGoalsValid(goals),
         goals |-> goals]

NoCalc ==
    [fn |-> "none", multiplier |-> 0, tdee |-> 0, adjustment |-> 0,
     final_calories |-> 0, ratios |-> [protein |-> 0, fat |-> 0, carb |-> 0],
     ok |-> FALSE,
     goals |-> [calories |-> 0, protein |-> 0, carbs |-> 0, fat |-> 0,
                fiber |-> 0]]

----------------------------------------------------------------------------
(* Generated content and its extraction (health_coach.py 136-144, 288-296) *)

\* how many days of one generated plan may differ from the well-formed one
MaxOddDays == 2

days == <<"monday", "tuesday", "wednesday", "thursday", "friday", "saturday",
          "sunday">>
Days == {days[i] : i \in 1..7}

Range(s) == {s[i] : i \in 1..Len(s)}

\* str.lower() on the strings that occur as keys, names and levels
Lower(s) ==
    CASE s \in {"Rest", "REST", "rest"} -> "rest"
      [] s \in {"Monday", "monday"} -> "monday"
      [] s \in {"Low", "low"} -> "low"
      [] s \in {"Medium", "MEDIUM", "medium"} -> "medium"
      [] s \in {"High", "HIGH", "high"} -> "high"
      [] s = "Squats" -> "squats"
      [] s = "Plank" -> "plank"
      [] s = "Off" -> "off"
      [] OTHER -> s

\* The message content is a sequence of chunks; "data" stands for the text of
\* the JSON members between the braces.
Contents ==
    { <<"{", "data", "}">>,                          \* the object alone
      <<"Here is the plan:", "{", "data", "}", "Enjoy!">>,
      <<"Sorry, I cannot help with that.">>,         \* no object at all
      <<"{", "data">>,                               \* cut off by max_tokens
      <<"}", "{">> }

\* str.find / str.rfind: 0-based index of the first / last chunk, -1 if none
Find(text, c) ==
    IF c \in Range(text)
        THEN (CHOOSE i \in 1..Len(text) :
                 text[i] = c /\ \A j \in 1..(i - 1) : text[j] # c) - 1
        ELSE -1

RFind(text, c) ==
    IF c \in Range(text)
        THEN (CHOOSE i \in 1..Len(text) :
                 text[i] = c /\ \A j \in (i + 1)..Len(text) : text[j] # c) - 1
        ELSE -1

\* the substring handed to json.loads
JsonCandidate(text) ==
    LET json_start == Find(text, "{")
        json_end == RFind(text, "}") + 1
    IN  IF json_start >= 0 /\ json_end > json_start
            THEN SubSeq(text, json_start + 1, json_end)
            ELSE text

\* json.loads succeeds on a complete object only
JsonLoads(text) == text = <<"{", "data", "}">>

----------------------------------------------------------------------------
(* Meal-plan payloads *)

required_nutrient_fields == {"calories", "protein", "carbs", "fat", "fiber"}
required_meal_fields == {"item", "portion"}
MealTopFields == {"meals", "total_calories", "total_protein", "total_carbs",
                  "total_fat", "total_fiber"}
MinMeals == 5

\* a meal item: the keys it has and, under "nutrients", the fields it has
GoodItem == [keys |-> {"item", "portion", "nutrients"},
             nutrients |-> required_nutrient_fields]
BadItems ==
    { [keys |-> {"portion", "nutrients"}, nutrients |-> required_nutrient_fields],
      [keys |-> {"item", "nutrients"}, nutrients |-> required_nutrient_fields],
      [keys |-> {"item", "portion", "nutrients"},
       nutrients |-> required_nutrient_fields \ {"fiber"}],
      [keys |-> {"item", "portion", "nutrients"},
       nutrients |-> required_nutrient_fields \ {"calories"}] }
PlainItem == [keys |-> {"item", "portion"}, nutrients |-> {}]
\* an item with an optional field of MealItem and two keys that MealItem and
\* Nutrients do not declare
NotedItem == [keys |-> {"item", "portion", "nutrients", "preparation_time",
                        "notes"},
              nutrients |-> required_nutrient_fields \cup {"vitamins", "sugar"}]

ListValue(items) == [type |-> "list", s |-> "", items |-> items]
StrValue(str) == [type |-> "str", s |-> str, items |-> <<>>]
NumValue == [type |-> "num", s |-> "", items |-> <<>>]
\* marks a key that the object does not have
AbsentValue == [type |-> "absent", s |-> "", items |-> <<>>]

Repeat(x, n) == [i \in 1..n |-> x]

GoodMealDay == ListValue(Repeat(GoodItem, MinMeals))

\* values a day of `meals` may hold instead
OddMealDays ==
    {AbsentValue, StrValue("rest"), ListValue(Repeat(GoodItem, MinMeals - 1)),
     ListValue(Repeat(GoodItem, MinMeals + 1)),
     ListValue([Repeat(GoodItem, MinMeals) EXCEPT ![MinMeals] = PlainItem]),
     ListValue([Repeat(GoodItem, MinMeals) EXCEPT ![1] = NotedItem])}
    \cup {ListValue([Repeat(GoodItem, MinMeals) EXCEPT ![1] = b]) : b \in BadItems}
    \cup {ListValue([Repeat(GoodItem, MinMeals) EXCEPT ![MinMeals] = b]) :
             b \in {x \in BadItems : x.nutrients # required_nutrient_fields}}

\* the sets of at most MaxOddDays days
OddDaySets == {S \in SUBSET Days : Cardinality(S) <= MaxOddDays}

\* an object keyed by day: good on every day but those of S, where f tells
Schedule(S, f, good) ==
    [d \in {x \in Days : x \notin S \/ f[x] # AbsentValue} |->
        IF d \in S THEN f[d] ELSE good]

\* one top-level deviation of the payload at most
MealDeviations ==
    {<<"none", "">>, <<"negative", "total_fat">>, <<"key", "Monday">>,
     <<"key", "funday">>, <<"with", "meal_timing">>, <<"with", "notes">>}
    \cup {<<"without", f>> : f \in MealTopFields}

WithKey(f, k, v) == [x \in DOMAIN f \cup {k} |-> IF x = k THEN v ELSE f[x]]

MealData(sched, dev) ==
    [top    |-> IF dev[1] = "without" THEN MealTopFields \ {dev[2]}
                ELSE IF dev[1] = "with" THEN MealTopFields \cup {dev[2]}
                ELSE MealTopFields,
     meals  |-> IF dev[1] = "key" THEN WithKey(sched, dev[2], GoodMealDay)
                ELSE sched,
     totals_ok |-> dev[1] # "negative"]

\* the payloads whose odd days are those of S; a payload with more than one
\* odd day has no deviation at top level
MealPayloads(S) ==
    {MealData(Schedule(S, f, GoodMealDay), dev) :
        f \in [S -> OddMealDays],
        dev \in IF Cardinality(S) <= 1 THEN MealDeviations ELSE {<<"none", "">>}}

GoodMealData == MealData([d \in Days |-> GoodMealDay], <<"none", "">>)

\* what one chat-completion call may give: an exception of the client
\* (a timeout among them) or a message content
ApiFailures == {"api_error", "timeout"}
Outcome(kind, text, data) == [kind |-> kind, text |-> text, data |-> data]
\* no message came back
NoData == [top |-> {}]

\* outcomes with a given set of odd days in the payload
MealOutcomes(S) ==
    {Outcome("content", <<"{", "data", "}">>, d) : d \in MealPayloads(S)}
    \cup IF S # {} THEN {}
         ELSE {Outcome(k, <<>>, NoData) : k \in ApiFailures}
              \cup {Outcome("content", t, GoodMealData) : t \in Contents}

\* str(e) of the client's exception
ExcText(kind) ==
    IF kind = "timeout" THEN <<"Request timed out.">> ELSE <<"Connection error.">>

----------------------------------------------------------------------------
(* HealthCoach.generate_meal_plan: validation of the parsed payload *)

\* messages are sequences of chunks; f"...{day}" keeps the day as a chunk
MealItemError(meal, day) ==
    IF ~(required_meal_fields \subseteq meal.keys)
        THEN <<"Missing required fields in meal item for", day>>
    ELSE IF "nutrients" \in meal.keys
            /\ ~(required_nutrient_fields \subseteq meal.nutrients)
        THEN <<"Missing required nutrient fields in meal item for", day>>
    ELSE <<>>

RECURSIVE FirstMealItemError(_, _, _)
FirstMealItemError(meals, day, i) ==
    IF i > Len(meals) THEN <<>>
    ELSE IF MealItemError(meals[i], day) # <<>> THEN MealItemError(meals[i], day)
    ELSE FirstMealItemError(meals, day, i + 1)

MealDayError(data, day) ==
    IF day \notin DOMAIN data.meals
        THEN <<"Missing", day, "in meal plan data">>
    ELSE IF data.meals[day].type # "list"
            \/ Len(data.meals[day].items) < MinMeals
        THEN <<"Insufficient meals for", day>>
    ELSE FirstMealItemError(data.meals[day].items, day, 1)

RECURSIVE FirstMealDayError(_, _)
FirstMealDayError(data, i) ==
    IF i > Len(days) THEN <<>>
    ELSE IF MealDayError(data, days[i]) # <<>> THEN MealDayError(data, days[i])
    ELSE FirstMealDayError(data, i + 1)

\* models.py MealPlan: validate_meals and the ge=0 totals
MealPlanModelError(data) ==
    LET provided_days == {Lower(k) : k \in DOMAIN data.meals}
    IN  IF ~(provided_days \subseteq Days)
            THEN <<"ValidationError", "meals", "Invalid days in meal plan">>
        ELSE IF Days \ provided_days # {}
            THEN <<"ValidationError", "meals", "Meal plan is missing days">>
        ELSE IF ~data.totals_ok
            THEN <<"ValidationError", "total_fat">>
        ELSE <<>>

\* the exception raised inside the inner try block, <<>> when there is none
MealInnerError(text, data) ==
    IF ~JsonLoads(JsonCandidate(text)) THEN <<"JSONDecodeError">>
    ELSE IF ~(MealTopFields \subseteq data.top)
        THEN <<"Missing required fields in meal plan data">>
    ELSE IF FirstMealDayError(data, 1) # <<>> THEN FirstMealDayError(data, 1)
    ELSE MealPlanModelError(data)

\* the fields that models.py declares
NutrientsFields == required_nutrient_fields \cup {"vitamins"}
MealItemFields == {"item", "portion", "nutrients", "preparation_time",
                   "difficulty_level", "alternatives"}
MealPlanFields == MealTopFields \cup {"meal_timing", "hydration_guidelines",
                                      "preparation_tips", "storage_instructions"}

\* a MealItem that keeps item and portion only
MealItemModel_ItemAndPortion(meal) ==
    [keys |-> meal.keys \cap {"item", "portion"}, nutrients |-> {}]

\* the MealItem object built from an item: a key that the model does not
\* declare is ignored
MealItemModel(meal) ==
    [keys |-> meal.keys \cap MealItemFields,
     nutrients |-> meal.nutrients \cap NutrientsFields]

\* the MealPlan object built at lines 171-182 from a payload that passed
MealPlanModel(data) ==
    [top |-> data.top \cap MealPlanFields,
     meals |-> [k \in DOMAIN data.meals |->
                   [i \in 1..Len(data.meals[k].items) |->
                       MealItemModel(data.meals[k].items[i])]]]

NoPlan == [x \in {} |-> 0]

CoachResult(fn, ok, error, logged, plan) ==
    [fn |-> fn, ok |-> ok, error |-> error, logged |-> logged, plan |-> plan]

\* a generate_meal_plan whose error carries the message of the inner exception
generate_meal_plan_Leaky(o) ==
    IF o.kind # "content"
        THEN CoachResult("generate_meal_plan", FALSE,
                 <<"Error generating meal plan:">> \o ExcText(o.kind), <<>>, NoPlan)
    ELSE IF MealInnerError(o.text, o.data) # <<>>
        THEN CoachResult("generate_meal_plan", FALSE,
                 <<"Error generating meal plan:">> \o MealInnerError(o.text, o.data),
                 MealInnerError(o.text, o.data), NoPlan)
    ELSE CoachResult("generate_meal_plan", TRUE, <<>>, <<>>,
             MealPlanModel(o.data))

generate_meal_plan(o) ==
    IF o.kind # "content"
        THEN CoachResult("generate_meal_plan", FALSE,
                 <<"Error generating meal plan:">> \o ExcText(o.kind), <<>>, NoPlan)
    ELSE IF MealInnerError(o.text, o.data) # <<>>
        THEN CoachResult("generate_meal_plan", FALSE,
                 <<"Error generating meal plan:",
                   "Failed to parse the meal plan response from the AI model">>,
                 MealInnerError(o.text, o.data), NoPlan)
    ELSE CoachResult("generate_meal_plan", TRUE, <<>>, <<>>,
             MealPlanModel(o.data))

----------------------------------------------------------------------------
(* Workout-plan payloads *)

WorkoutTopFields == {"weekly_schedule", "intensity_level",
                     "estimated_calories_burn"}

\* an entry of a day's list: a JSON object with some of the keys exercise,
\* sets, duration and their string values, or a bare JSON string
Entry(keys, name, sets, duration) ==
    [type |-> "dict", keys |-> keys, exercise |-> name, sets |-> sets,
     duration |-> duration]
StrEntry == [type |-> "str", keys |-> {}, exercise |-> "", sets |-> "",
             duration |-> ""]

\* {"exercise": "Rest"}
RestEntry == Entry({"exercise"}, "Rest", "", "")
Squats == Entry({"exercise", "sets"}, "Squats", "3x12", "")
Plank == Entry({"exercise", "duration"}, "Plank", "", "60s")

\* {"exercise": "Squats"}
NoSetsEntry == Entry({"exercise"}, "Squats", "", "")

GoodWorkoutDay == ListValue(<<Squats, Plank>>)

OddWorkoutDays ==
    {AbsentValue, StrValue("rest"), StrValue("REST"), StrValue("Off"), NumValue,
     ListValue(<<>>),
     ListValue(<<RestEntry>>),
     ListValue(<<NoSetsEntry>>),
     ListValue(<<Squats, Entry({"sets"}, "", "3x12", "")>>),
     ListValue(<<Entry({"exercise", "sets"}, "", "3x12", "")>>),
     ListValue(<<StrEntry>>),
     ListValue(<<Entry({"exercise"}, "rest", "", ""), Squats>>),
     ListValue(<<Entry({"exercise", "sets", "reps"}, "Squats", "3x12", "")>>)}

\* intensity_level strings, letter by letter
LowStr == <<"l", "o", "w">>
MediumStr == <<"m", "e", "d", "i", "u", "m">>
HighStr == <<"h", "i", "g", "h">>

\* intensity_level strings the service may give
IntensityLevels ==
    {LowStr, MediumStr, HighStr, <<"L", "o", "w">>, <<"H", "I", "G", "H">>,
     <<"e", "x", "t", "r", "e", "m", "e">>, <<"l", "o", "w", "e", "s", "t">>,
     <<"v", "e", "r", "y", " ", "h", "i", "g", "h">>,
     <<"h", "i", "g", "h", "e", "r">>, <<>>}

WorkoutDeviations ==
    {<<"none", "">>, <<"negative", "estimated_calories_burn">>,
     <<"key", "Monday">>, <<"key", "funday">>, <<"keylist", "Monday">>,
     <<"with", "warm_up">>, <<"with", "notes">>}
    \cup {<<"without", f>> : f \in WorkoutTopFields}
    \cup {<<"intensity", l>> : l \in IntensityLevels \ {LowStr}}

WorkoutData(sched, dev) ==
    [top    |-> IF dev[1] = "without" THEN WorkoutTopFields \ {dev[2]}
                ELSE IF dev[1] = "with" THEN WorkoutTopFields \cup {dev[2]}
                ELSE WorkoutTopFields,
     weekly_schedule |->
                IF dev[1] = "key" THEN WithKey(sched, dev[2], StrValue("Rest"))
                ELSE IF dev[1] = "keylist"
                    THEN WithKey(sched, dev[2], ListValue(<<NoSetsEntry>>))
                ELSE sched,
     intensity_level |-> IF dev[1] = "intensity" THEN dev[2] ELSE LowStr,
     calories_ok |-> dev[1] # "negative"]

WorkoutPayloads(S) ==
    {WorkoutData(Schedule(S, f, GoodWorkoutDay), dev) :
        f \in [S -> OddWorkoutDays],
        dev \in IF Cardinality(S) <= 1 THEN WorkoutDeviations
                ELSE {<<"none", "">>}}

GoodWorkoutData == WorkoutData([d \in Days |-> GoodWorkoutDay], <<"none", "">>)

WorkoutOutcomes(S) ==
    {Outcome("content", <<"{", "data", "}">>, d) : d \in WorkoutPayloads(S)}
    \cup IF S # {} THEN {}
         ELSE {Outcome(k, <<>>, NoData) : k \in ApiFailures}
              \cup {Outcome("content", t, GoodWorkoutData) : t \in Contents}

----------------------------------------------------------------------------
(* HealthCoach.generate_workout_plan: validation of the parsed payload *)

\* the comparison without .lower()
IsRestString_CaseSensitive(v) == v.type = "str" /\ v.s = "rest"

\* isinstance(exercises, str) and exercises.lower() == 'rest'
IsRestString(v) == v.type = "str" /\ Lower(v.s) = "rest"

\* the keys of weekly_schedule in the order the loop of line 299 meets them
ScheduleKeys(sched) ==
    SelectSeq(days \o <<"Monday", "funday">>, LAMBDA k : k \in DOMAIN sched)

\* lines 299-303: the first day that is neither a list nor a rest string
RECURSIVE FirstConvertError(_, _, _)
FirstConvertError(sched, keys, i) ==
    IF i > Len(keys) THEN <<>>
    ELSE IF ~IsRestString(sched[keys[i]]) /\ sched[keys[i]].type # "list"
        THEN <<"Invalid exercise data for", keys[i]>>
    ELSE FirstConvertError(sched, keys, i + 1)

\* lines 299-301: rest strings replaced by [{"exercise": "Rest"}]
ConvertRestDays(sched) ==
    [k \in DOMAIN sched |->
        IF IsRestString(sched[k]) THEN ListValue(<<RestEntry>>) ELSE sched[k]]

\* exercise.get('exercise', '')
ExerciseName(e) == IF "exercise" \in e.keys THEN e.exercise ELSE ""

ExerciseError(e, day) ==
    IF e.type # "dict" THEN <<"Invalid exercise format in", day>>
    ELSE IF "exercise" \notin e.keys THEN <<"Missing exercise name in", day>>
    ELSE IF Lower(e.exercise) # "rest" /\ e.keys \cap {"sets", "duration"} = {}
        THEN <<"Exercise must have either sets or duration in", day>>
    ELSE <<>>

RECURSIVE FirstExerciseError(_, _, _)
FirstExerciseError(exercises, day, i) ==
    IF i > Len(exercises) THEN <<>>
    ELSE IF ExerciseError(exercises[i], day) # <<>>
        THEN ExerciseError(exercises[i], day)
    ELSE FirstExerciseError(exercises, day, i + 1)

\* lines 313-331 for one day of the converted schedule
WorkoutDayError(sched, day) ==
    IF day \notin DOMAIN sched THEN <<"Missing", day, "in workout schedule">>
    ELSE IF sched[day].type # "list" THEN <<"Invalid exercise data for", day>>
    ELSE LET exercises == sched[day].items
         IN  IF Len(exercises) = 1 /\ exercises[1].type # "dict"
                 THEN <<"AttributeError", "'str' object has no attribute 'get'">>
             ELSE IF Len(exercises) = 1
                     /\ Lower(ExerciseName(exercises[1])) = "rest"
                 THEN <<>>
             ELSE FirstExerciseError(exercises, day, 1)

RECURSIVE FirstWorkoutDayError(_, _)
FirstWorkoutDayError(sched, i) ==
    IF i > Len(days) THEN <<>>
    ELSE IF WorkoutDayError(sched, days[i]) # <<>>
        THEN WorkoutDayError(sched, days[i])
    ELSE FirstWorkoutDayError(sched, i + 1)

\* models.py Exercise: exercise min_length=1; sets, duration min_length=1
\* when given
ExerciseModelValid(e) ==
    /\ e.type = "dict"
    /\ "exercise" \in e.keys /\ e.exercise # ""
    /\ "sets" \in e.keys => e.sets # ""
    /\ "duration" \in e.keys => e.duration # ""

None == "<None>"

\* the Exercise object built from an entry; a field not given is None
ExerciseModel(e) ==
    [exercise |-> e.exercise,
     sets |-> IF "sets" \in e.keys THEN e.sets ELSE None,
     duration |-> IF "duration" \in e.keys THEN e.duration ELSE None]

\* str.lower letter by letter, on the letters of IntensityLevels
LowerChar(c) ==
    CASE c = "L" -> "l" [] c = "O" -> "o" [] c = "W" -> "w" [] c = "H" -> "h"
      [] c = "I" -> "i" [] c = "G" -> "g" [] OTHER -> c
LowerStr(s) == [i \in 1..Len(s) |-> LowerChar(s[i])]

StartsWith(s, t) == Len(s) >= Len(t) /\ SubSeq(s, 1, Len(t)) = t
EndsWith(s, t) ==
    Len(s) >= Len(t) /\ SubSeq(s, Len(s) - Len(t) + 1, Len(s)) = t
Contains(s, t) ==
    \E i \in 1..(Len(s) - Len(t) + 1) : SubSeq(s, i, i + Len(t) - 1) = t

\* pattern "^(?i)low|medium|high$" of WorkoutPlan.intensity_level: the
\* alternation binds last, so ^ holds for "low" only and $ for "high" only,
\* and the pattern is searched for in the string; (?i) ignores letter case
IntensityMatches(s) ==
    \/ StartsWith(LowerStr(s), LowStr)
    \/ Contains(LowerStr(s), MediumStr)
    \/ EndsWith(LowerStr(s), HighStr)

\* models.py WorkoutPlan: field types, validate_schedule, pattern, ge=0
WorkoutPlanModelError(data, sched) ==
    IF \E k \in DOMAIN sched :
           \/ sched[k].type # "list"
           \/ \E i \in 1..Len(sched[k].items) :
                  ~ExerciseModelValid(sched[k].items[i])
        THEN <<"ValidationError", "weekly_schedule">>
    ELSE IF \E k \in DOMAIN sched : Lower(k) \notin Days
        THEN <<"ValidationError", "weekly_schedule",
               "Invalid day in workout schedule">>
    ELSE IF ~IntensityMatches(data.intensity_level)
        THEN <<"ValidationError", "intensity_level">>
    ELSE IF ~data.calories_ok
        THEN <<"ValidationError", "estimated_calories_burn">>
    ELSE <<>>

\* the exception raised inside the inner try block, <<>> when there is none
WorkoutInnerError(text, data) ==
    IF ~JsonLoads(JsonCandidate(text)) THEN <<"JSONDecodeError">>
    ELSE IF "weekly_schedule" \notin data.top
        THEN <<"KeyError", "weekly_schedule">>
    ELSE LET sched == data.weekly_schedule
             conv == ConvertRestDays(sched)
         IN  IF FirstConvertError(sched, ScheduleKeys(sched), 1) # <<>>
                 THEN FirstConvertError(sched, ScheduleKeys(sched), 1)
             ELSE IF ~(WorkoutTopFields \subseteq data.top)
                 THEN <<"Missing required fields in workout plan data">>
             ELSE IF FirstWorkoutDayError(conv, 1) # <<>>
                 THEN FirstWorkoutDayError(conv, 1)
             ELSE WorkoutPlanModelError(data, conv)

WorkoutPlanFields == WorkoutTopFields \cup {"warm_up", "cool_down",
                                            "safety_precautions",
                                            "progression_tips"}

\* the WorkoutPlan object built from a payload that passed
WorkoutPlanModel(data) ==
    LET conv == ConvertRestDays(data.weekly_schedule)
    IN  [top |-> data.top \cap WorkoutPlanFields,
         weekly_schedule |->
             [k \in DOMAIN conv |->
                 [i \in 1..Len(conv[k].items) |-> ExerciseModel(conv[k].items[i])]],
         intensity_level |-> LowerStr(data.intensity_level)]

\* a generate_workout_plan that falls back on a plan when the call timed out
generate_workout_plan_Fallback(o) ==
    IF o.kind = "timeout"
        THEN CoachResult("generate_workout_plan", TRUE, <<>>, <<>>,
                 WorkoutPlanModel(GoodWorkoutData))
    ELSE IF o.kind # "content"
        THEN CoachResult("generate_workout_plan", FALSE,
                 <<"Error generating workout plan:">> \o ExcText(o.kind),
                 <<>>, NoPlan)
    ELSE IF WorkoutInnerError(o.text, o.data) # <<>>
        THEN CoachResult("generate_workout_plan", FALSE,
                 <<"Error generating workout plan:",
                   "Failed to parse the workout plan response from the AI model">>,
                 WorkoutInnerError(o.text, o.data), NoPlan)
    ELSE CoachResult("generate_workout_plan", TRUE, <<>>, <<>>,
             WorkoutPlanModel(o.data))

generate_workout_plan(o) ==
    IF o.kind # "content"
        THEN CoachResult("generate_workout_plan", FALSE,
                 <<"Error generating workout plan:">> \o ExcText(o.kind),
                 <<>>, NoPlan)
    ELSE IF WorkoutInnerError(o.text, o.data) # <<>>
        THEN CoachResult("generate_workout_plan", FALSE,
                 <<"Error generating workout plan:",
                   "Failed to parse the workout plan response from the AI model">>,
                 WorkoutInnerError(o.text, o.data), NoPlan)
    ELSE CoachResult("generate_workout_plan", TRUE, <<>>, <<>>,
             WorkoutPlanModel(o.data))

----------------------------------------------------------------------------
(* Direct calls of the calculators *)

NoCoach == CoachResult("none", FALSE, <<>>, <<>>, NoPlan)
NoOutcome == Outcome("none", <<>>, NoData)
NoResp == [status |-> 0, detail |-> <<>>]

\* remote addresses
Clients == {"10.0.0.1", "10.0.0.2"}

\* the routes SpecLimit sends requests to, out of the five with
\* @limiter.limit("10/minute")
LimitedRoutes == {"/", "/nutrition-goals"}

\* no /analyze-meal body
NoMealData == [type |-> "none", keys |-> {}]

\* the result of a /nutrition-goals request: the response and the goals in
\* it; seen tells whether the profile was asked for once or more than once
Result(r, c) == [status |-> r.status, detail |-> r.detail, goals |-> c.goals,
                 seen |-> 1]
NoResult == [status |-> 0, detail |-> <<>>,
             goals |-> [calories |-> 0, protein |-> 0, carbs |-> 0, fat |-> 0,
                        fiber |-> 0],
             seen |-> 0]

\* the profiles whose first result is remembered
MemoProfiles ==
    [age : {30}, weight : {1, 70}, height : {175},
     goals : {{"weight_loss"}}, activity_level : {"light"}]

\* no request yet: the limiter's storage is empty
NoTraffic ==
    /\ meal_data = NoMealData
    /\ client = "10.0.0.1"
    /\ hits = [c \in Clients |-> [r \in LimitedRoutes |-> 0]]
    /\ skipped = [c \in Clients |-> [r \in LimitedRoutes |-> FALSE]]
    /\ memo = [p \in MemoProfiles |-> NoResult]

InitCalc ==
    /\ profile \in CalcProfiles
    /\ calc = NoCalc
    /\ route = "none"
    /\ pc = "idle"
    /\ llmCalls = 0
    /\ calcCalls = 0
    /\ llm = NoOutcome
    /\ coach = NoCoach
    /\ resp = NoResp
    /\ NoTraffic

HttpUnchanged ==
    UNCHANGED <<route, pc, llmCalls, llm, coach, resp, meal_data, client, hits,
                skipped, memo>>

CallGetNutritionGoals ==
    /\ calc.fn = "none"
    /\ calc' = get_nutrition_goals(profile)
    /\ calcCalls' = calcCalls + 1
    /\ UNCHANGED profile
    /\ HttpUnchanged

CallCalculateNutritionGoals ==
    /\ calc.fn = "none"
    /\ calc' = _calculate_nutrition_goals(profile)
    /\ calcCalls' = calcCalls + 1
    /\ UNCHANGED profile
    /\ HttpUnchanged

NextCalc == CallGetNutritionGoals \/ CallCalculateNutritionGoals

SpecCalc == InitCalc /\ [][NextCalc]_vars

----------------------------------------------------------------------------
(* Claims on the calculators, checked under SpecCalc *)

Abs(x) == IF x < 0 THEN -x ELSE x

\* n is an integer nearest to num/den (den > 0)
Nearest(n, num, den) == 2 * Abs(n * den - num) <= den

GoalsCalled == calc.fn = "get_nutrition_goals"

\* C1: with both weight_loss and muscle_gain in goals get_nutrition_goals
\* selects the weight_loss ratios (0.40, 0.30, 0.30); with muscle_gain only
\* the muscle_gain ratios (0.35, 0.20, 0.45); with neither the default
\* (0.30, 0.25, 0.45).  Stated as claimed; the code selects otherwise.
C1_WeightLossRatiosFirst ==
    GoalsCalled =>
        calc.ratios =
            IF "weight_loss" \in profile.goals
                THEN [protein |-> 8, fat |-> 6, carb |-> 6]
            ELSE IF "muscle_gain" \in profile.goals
                THEN [protein |-> 7, fat |-> 4, carb |-> 9]
            ELSE [protein |-> 6, fat |-> 5, carb |-> 9]

\* C2: the calorie target of get_nutrition_goals is the TDEE minus 500 when
\* weight_loss is a goal (muscle_gain present or not), plus 300 when
\* muscle_gain is a goal and weight_loss is not, and the TDEE itself otherwise.
C2_CalorieAdjustment ==
    GoalsCalled =>
        /\ "weight_loss" \in profile.goals
               => calc.final_calories = calc.tdee - 160 * 500
        /\ ("muscle_gain" \in profile.goals /\ "weight_loss" \notin profile.goals)
               => calc.final_calories = calc.tdee + 160 * 300
        /\ profile.goals \cap {"weight_loss", "muscle_gain"} = {}
               => calc.final_calories = calc.tdee

C2_Witness ==
    /\ GoalsCalled
    /\ {"weight_loss", "muscle_gain"} \subseteq profile.goals
    /\ calc.final_calories = calc.tdee - 160 * 500

\* the multiplier table of the specification, in fortieths
TableMultiplier(level) ==
    CASE level = "sedentary" -> 48
      [] level = "light" -> 55
      [] level = "moderate" -> 62
      [] level = "active" -> 69
      [] level = "very_active" -> 76
      [] OTHER -> 62

\* C3: every nutrition-goal computation uses the table multiplier of its
\* activity_level (1.2, 1.375, 1.55, 1.725, 1.9) and 1.55 for a level that is
\* not in the table.  Stated as claimed; _calculate_nutrition_goals falls
\* back to 1.2.
C3_MultiplierTable ==
    calc.fn # "none" =>
        /\ calc.multiplier = TableMultiplier(profile.activity_level)
        /\ calc.tdee = Bmr4(profile) * TableMultiplier(profile.activity_level)

\* C4: get_nutrition_goals returns the integers nearest to the calorie target,
\* to target * protein_ratio / 4, target * carb_ratio / 4, target * fat_ratio / 9
\* and weight * 0.5; for weight 70, height 175, age 30, "moderate" and no
\* goals it returns 2548, 191, 287, 71, 35.
C4_Example == [age |-> 30, weight |-> 70, height |-> 175, goals |-> {},
               activity_level |-> "moderate"]

C4_RoundedGoals ==
    (GoalsCalled /\ calc.ok) =>
        LET target == calc.tdee + 160 * calc.adjustment
            g == calc.goals
        IN  /\ Nearest(g.calories, target, 160)
            /\ Nearest(g.protein, target * calc.ratios.protein, 160 * 20 * 4)
            /\ Nearest(g.carbs, target * calc.ratios.carb, 160 * 20 * 4)
            /\ Nearest(g.fat, target * calc.ratios.fat, 160 * 20 * 9)
            /\ Nearest(g.fiber, profile.weight, 2)
            /\ profile = C4_Example =>
                   g = [calories |-> 2548, protein |-> 191, carbs |-> 287,
                        fat |-> 71, fiber |-> 35]

C4_Witness ==
    /\ GoalsCalled /\ calc.ok
    /\ profile = C4_Example
    /\ calc.goals.calories = 2548

\* C5: for every profile the boundary accepts, the nutrition-goal computation
\* returns NutritionGoals with no negative field.  Stated as claimed; the
\* code computes negative values for small bodies and the NutritionGoals
\* constructor rejects them.
C5_AcceptedProfileGetsGoals ==
    (GoalsCalled /\ HealthInputValid(profile)) =>
        calc.ok /\ NutritionGoalsValid(calc.goals)

----------------------------------------------------------------------------
(* Direct calls of generate_meal_plan and generate_workout_plan *)

\* the profile the plans are asked for
PlanProfile == [age |-> 30, weight |-> 70, height |-> 175,
                goals |-> {"weight_loss"}, activity_level |-> "moderate"]

InitPlan ==
    /\ profile = PlanProfile
    /\ calc = NoCalc
    /\ route = "none"
    /\ pc = "idle"
    /\ llmCalls = 0
    /\ calcCalls = 0
    /\ llm = NoOutcome
    /\ coach = NoCoach
    /\ resp = NoResp
    /\ NoTraffic

\* one call of generate_meal_plan: the chat completion and what follows it
CallGenerateMealPlan ==
    /\ coach.fn = "none"
    /\ \E S \in OddDaySets : \E o \in MealOutcomes(S) :
           /\ llm' = o
           /\ coach' = generate_meal_plan(o)
    /\ llmCalls' = llmCalls + 1
    /\ UNCHANGED <<profile, calc, route, pc, calcCalls, resp>>
    /\ UNCHANGED <<meal_data, client, hits, skipped, memo>>

CallGenerateWorkoutPlan ==
    /\ coach.fn = "none"
    /\ \E S \in OddDaySets : \E o \in WorkoutOutcomes(S) :
           /\ llm' = o
           /\ coach' = generate_workout_plan(o)
    /\ llmCalls' = llmCalls + 1
    /\ UNCHANGED <<profile, calc, route, pc, calcCalls, resp>>
    /\ UNCHANGED <<meal_data, client, hits, skipped, memo>>

\* the caller is done with the result
ReturnToCaller ==
    /\ coach.fn # "none"
    /\ coach' = NoCoach
    /\ llm' = NoOutcome
    /\ llmCalls' = 0
    /\ UNCHANGED <<profile, calc, route, pc, calcCalls, resp>>
    /\ UNCHANGED <<meal_data, client, hits, skipped, memo>>

NextMeal == CallGenerateMealPlan \/ ReturnToCaller
SpecMeal == InitPlan /\ [][NextMeal]_vars

NextWorkout == CallGenerateWorkoutPlan \/ ReturnToCaller
SpecWorkout == InitPlan /\ [][NextWorkout]_vars

\* calls of either in any order
NextPlans == CallGenerateMealPlan \/ CallGenerateWorkoutPlan \/ ReturnToCaller
SpecPlans == InitPlan /\ [][NextPlans]_vars

----------------------------------------------------------------------------
(* main.py: the HTTP handlers *)

\* request bodies: well-typed Profile JSON, inside and outside the limits
HttpProfiles ==
    [age : {0, 30, 121}, weight : {0, 1, 70}, height : {0, 1, 175},
     goals : {{}, {"weight_loss"}},
     activity_level : {"sedentary", "light", "extreme"}]

\* the generation service's outcomes for a request in flight: payloads that
\* are well formed on every day but, at most, monday
HttpOddDaySets == {{}, {"monday"}}

Response(status, detail) == [status |-> status, detail |-> detail]

\* FastAPI answers a body that HealthInput rejects before the handler runs
RequestValidationError == Response(422, <<"RequestValidationError">>)

Init ==
    /\ profile = PlanProfile
    /\ calc = NoCalc
    /\ route = "none"
    /\ pc = "idle"
    /\ llmCalls = 0
    /\ calcCalls = 0
    /\ llm = NoOutcome
    /\ coach = NoCoach
    /\ resp = NoResp
    /\ NoTraffic

\* a request is taken up when none is in flight: the handlers are coroutines
\* that never yield (the chat-completion client is the blocking one), so one
\* request is handled at a time
Accept(r, body) ==
    /\ pc \in {"idle", "done"}
    /\ route' = r
    /\ profile' = body

\* nothing of a handler has run
NoHandlerState ==
    /\ llmCalls' = 0
    /\ calcCalls' = 0
    /\ calc' = NoCalc
    /\ llm' = NoOutcome
    /\ coach' = NoCoach

Rejected ==
    /\ resp' = RequestValidationError
    /\ pc' = "done"
    /\ NoHandlerState

\* the handler's own check, lines 105-106 and 154-155
HandlerCheckFails(body) == body.age <= 0 \/ body.weight <= 0 \/ body.height <= 0

HandlerCheckError ==
    Response(400, <<"Age, weight, and height must be positive numbers">>)

\* the handler has issued the chat completion and waits for it
AwaitGeneration ==
    /\ pc' = "awaiting"
    /\ llmCalls' = 1
    /\ calcCalls' = 0
    /\ calc' = NoCalc
    /\ llm' = NoOutcome
    /\ coach' = NoCoach
    /\ resp' = NoResp

\* a handler that calls the chat completion again when the plan did not come
AfterOutcome_Retry(ok) ==
    IF ok \/ llmCalls >= 3 THEN pc' = "done" /\ llmCalls' = llmCalls
    ELSE pc' = "awaiting" /\ llmCalls' = llmCalls + 1

\* the call has given its outcome (ok: a plan came of it): the handler
\* answers, with no further call
AfterOutcome(ok) ==
    /\ pc' = "done"
    /\ llmCalls' = llmCalls

\* in Spec every request comes from one address and the limiter admits it
LimiterUnchanged == UNCHANGED <<client, hits, skipped>>

\* GET /: the handler
RootHandler ==
    /\ resp' = Response(200, <<"ok">>)
    /\ pc' = "done"
    /\ NoHandlerState

GetRoot ==
    /\ pc \in {"idle", "done"}
    /\ route' = "/"
    /\ RootHandler
    /\ LimiterUnchanged
    /\ UNCHANGED <<profile, meal_data, memo>>

\* POST /meal-plan with a given body, up to the chat completion
MealPlanRequest(body) ==
    /\ Accept("/meal-plan", body)
    /\ IF ~HealthInputValid(body) THEN Rejected
       ELSE IF HandlerCheckFails(body)
           THEN /\ resp' = HandlerCheckError
                /\ pc' = "done"
                /\ NoHandlerState
       ELSE AwaitGeneration
    /\ LimiterUnchanged
    /\ UNCHANGED <<meal_data, memo>>

PostMealPlan == \E body \in HttpProfiles : MealPlanRequest(body)

\* POST /meal-plan from the chat completion's outcome to the response
MealPlanReturns ==
    /\ pc = "awaiting" /\ route = "/meal-plan"
    /\ \E S \in HttpOddDaySets : \E o \in MealOutcomes(S) :
           /\ llm' = o
           /\ coach' = generate_meal_plan(o)
    /\ resp' = IF coach'.ok THEN Response(200, <<"MealPlan">>)
               ELSE Response(400, coach'.error)     \* except ValueError
    /\ AfterOutcome(coach'.ok)
    /\ LimiterUnchanged
    /\ UNCHANGED <<profile, calc, route, calcCalls, meal_data, memo>>

\* the bodies of POST /analyze-meal: a JSON object with items, an empty
\* object, a JSON list
AnalyzeBodies ==
    {[type |-> "dict", keys |-> {"items"}], [type |-> "dict", keys |-> {}],
     [type |-> "list", keys |-> {}]}

\* the methods of class HealthCoach
HealthCoachMethods ==
    {"__init__", "_is_rest_day", "generate_meal_plan", "generate_workout_plan",
     "get_nutrition_goals", "_get_supplement_recommendations",
     "_get_food_nutrients", "_calculate_nutrition_goals",
     "_create_workout_plan_prompt", "_parse_meal_plan_response",
     "_parse_workout_plan_response", "_estimate_prep_time",
     "_calculate_difficulty", "_identify_muscle_groups",
     "_get_required_equipment", "_calculate_exercise_difficulty",
     "_get_exercise_tutorial"}

\* POST /analyze-meal: `meal_data: dict` is the body; the handler looks up
\* health_coach.analyze_nutritional_content, an AttributeError when the
\* class has no such method, which `except Exception` answers
PostAnalyzeMeal ==
    /\ pc \in {"idle", "done"}
    /\ route' = "/analyze-meal"
    /\ \E body \in AnalyzeBodies :
           /\ meal_data' = body
           /\ resp' = IF body.type # "dict" THEN RequestValidationError
                      ELSE IF body.keys = {}
                          THEN Response(400, <<"Invalid meal data format">>)
                      ELSE IF "analyze_nutritional_content" \notin HealthCoachMethods
                          THEN Response(500,
                                   <<"Internal server error while analyzing meal">>)
                      ELSE Response(200, <<"analysis">>)
    /\ pc' = "done"
    /\ NoHandlerState
    /\ LimiterUnchanged
    /\ UNCHANGED <<profile, memo>>

\* POST /workout-plan with a given body, up to the chat completion
WorkoutPlanRequest(body) ==
    /\ Accept("/workout-plan", body)
    /\ IF ~HealthInputValid(body) THEN Rejected ELSE AwaitGeneration
    /\ LimiterUnchanged
    /\ UNCHANGED <<meal_data, memo>>

PostWorkoutPlan == \E body \in HttpProfiles : WorkoutPlanRequest(body)

\* POST /workout-plan from the chat completion's outcome to the response.
\* The except branch builds starlette's Response with a dict as content,
\* which Response.render cannot encode: the server's error middleware answers.
WorkoutPlanReturns ==
    /\ pc = "awaiting" /\ route = "/workout-plan"
    /\ \E S \in HttpOddDaySets : \E o \in WorkoutOutcomes(S) :
           /\ llm' = o
           /\ coach' = generate_workout_plan(o)
    /\ resp' = IF coach'.ok THEN Response(200, <<"WorkoutPlan">>)
               ELSE Response(500, <<"Internal Server Error">>)
    /\ AfterOutcome(coach'.ok)
    /\ LimiterUnchanged
    /\ UNCHANGED <<profile, calc, route, calcCalls, meal_data, memo>>

\* POST /nutrition-goals: the handler, lines 151-165
NutritionGoalsHandler(body) ==
    IF HandlerCheckFails(body)
        THEN /\ resp' = HandlerCheckError
             /\ pc' = "done"
             /\ NoHandlerState
    ELSE /\ calc' = get_nutrition_goals(body)
         /\ calcCalls' = 1
         /\ resp' = IF calc'.ok THEN Response(200, <<"NutritionGoals">>)
                    ELSE Response(400, <<"ValidationError", "NutritionGoals">>)
         /\ pc' = "done"
         /\ llmCalls' = 0
         /\ llm' = NoOutcome
         /\ coach' = NoCoach

\* POST /nutrition-goals
PostNutritionGoals ==
    /\ \E body \in HttpProfiles :
        /\ Accept("/nutrition-goals", body)
        /\ IF ~HealthInputValid(body) THEN Rejected
           ELSE NutritionGoalsHandler(body)
    /\ LimiterUnchanged
    /\ UNCHANGED <<meal_data, memo>>

Next ==
    \/ GetRoot
    \/ PostMealPlan
    \/ MealPlanReturns
    \/ PostAnalyzeMeal
    \/ PostWorkoutPlan
    \/ WorkoutPlanReturns
    \/ PostNutritionGoals

Spec == Init /\ [][Next]_vars

\* the chat completion is called with timeout=30 (timeout=15): its outcome,
\* a message or an exception, always comes
SpecFair ==
    Spec /\ WF_vars(MealPlanReturns) /\ WF_vars(WorkoutPlanReturns)

----------------------------------------------------------------------------
(* main.py: requests with the same profile, with requests to every route in
   between; memo keeps the first result of /nutrition-goals for a profile *)

\* the bodies of SpecTwice
TwiceProfiles == MemoProfiles \cup {[PlanProfile EXCEPT !.age = 0]}

TwiceMealPlan == \E body \in TwiceProfiles : MealPlanRequest(body)

TwiceWorkoutPlan == \E body \in TwiceProfiles : WorkoutPlanRequest(body)

TwiceNutritionGoals ==
    /\ \E body \in TwiceProfiles :
        /\ Accept("/nutrition-goals", body)
        /\ IF ~HealthInputValid(body) THEN Rejected
           ELSE NutritionGoalsHandler(body)
        /\ memo' = IF body \notin MemoProfiles THEN memo
                   ELSE IF memo[body] = NoResult
                       THEN [memo EXCEPT ![body] = Result(resp', calc')]
                   ELSE [memo EXCEPT ![body].seen = 2]
    /\ LimiterUnchanged
    /\ UNCHANGED meal_data

NextTwice ==
    \/ GetRoot
    \/ TwiceMealPlan
    \/ MealPlanReturns
    \/ PostAnalyzeMeal
    \/ TwiceWorkoutPlan
    \/ WorkoutPlanReturns
    \/ TwiceNutritionGoals

SpecTwice == Init /\ [][NextTwice]_vars

----------------------------------------------------------------------------
(* main.py: the limiter around the handlers (slowapi, fixed window, counters
   in memory keyed by remote address and route) *)

\* "10/minute"
RateLimit == 10

\* the answer of _rate_limit_exceeded_handler
RateLimitExceeded == Response(429, <<"Rate limit exceeded: 10 per 1 minute">>)

\* request bodies of SpecLimit: one that HealthInput accepts, one it rejects
LimitProfiles == {PlanProfile, [PlanProfile EXCEPT !.age = 0]}

\* a handler that still runs for the request after the tenth
WithinLimit_OneMore(c, r) == hits[c][r] <= RateLimit

\* the request is within the limit of its key
WithinLimit(c, r) == hits[c][r] < RateLimit

\* the wrapper that @limiter.limit puts around a handler: the request is
\* counted under (address, route) and the handler runs if the count is
\* within the limit.  The counter is kept up to RateLimit + 1.
Limited(c, r, handler) ==
    /\ client' = c
    /\ hits' = [hits EXCEPT ![c][r] = IF @ > RateLimit THEN @ ELSE @ + 1]
    /\ IF WithinLimit(c, r) THEN handler
       ELSE /\ resp' = RateLimitExceeded
            /\ pc' = "done"
            /\ NoHandlerState
    /\ UNCHANGED skipped

\* GET / from address c
RootRequest(c) ==
    /\ pc \in {"idle", "done"}
    /\ route' = "/"
    /\ Limited(c, "/", RootHandler)
    /\ UNCHANGED <<profile, meal_data, memo>>

\* POST /nutrition-goals from address c: FastAPI validates the body before
\* it calls the wrapped handler, so a rejected body is not counted
NutritionGoalsRequest(c, body) ==
    /\ Accept("/nutrition-goals", body)
    /\ IF ~HealthInputValid(body)
           THEN /\ Rejected
                /\ client' = c
                /\ skipped' = [skipped EXCEPT ![c]["/nutrition-goals"] = TRUE]
                /\ UNCHANGED hits
       ELSE Limited(c, "/nutrition-goals", NutritionGoalsHandler(body))
    /\ UNCHANGED <<meal_data, memo>>

LimitedRoot == \E c \in Clients : RootRequest(c)

LimitedNutritionGoals ==
    \E c \in Clients : \E body \in LimitProfiles : NutritionGoalsRequest(c, body)

\* a minute after its first hit the counter of a key expires
WindowExpires ==
    /\ \E c \in Clients : \E r \in LimitedRoutes :
           /\ hits[c][r] > 0 \/ skipped[c][r]
           /\ hits' = [hits EXCEPT ![c][r] = 0]
           /\ skipped' = [skipped EXCEPT ![c][r] = FALSE]
    /\ UNCHANGED <<profile, calc, route, pc, llmCalls, calcCalls, llm, coach,
                   resp, meal_data, client, memo>>

NextLimit == LimitedRoot \/ LimitedNutritionGoals \/ WindowExpires

SpecLimit == Init /\ [][NextLimit]_vars

----------------------------------------------------------------------------
(* Claims on the HTTP handlers, checked under Spec *)

\* the generation call failed, or its output failed parsing or validation
GenerationFailed == pc = "done" /\ llmCalls = 1 /\ ~coach.ok

\* C6: a POST /meal-plan request with a valid profile whose generation call
\* fails, or whose output fails parsing or schema validation, is answered
\* with status 500.  Stated as claimed; the handler answers 400.
C6_GenerationFailureIs500 ==
    (route = "/meal-plan" /\ HealthInputValid(profile) /\ GenerationFailed)
        => resp.status = 500

ShapeViolation(p) ==
    p.age <= 0 \/ p.weight <= 0 \/ p.height <= 0 \/ p.goals = {}

\* C7: a request to /meal-plan, /workout-plan or /nutrition-goals whose
\* profile has age, weight or height not above 0, or no goals, is answered
\* with status 400 without a generation call or a calculator call.  Stated
\* as claimed; the request is answered with 422.
C7_ShapeViolationIs400 ==
    (pc = "done" /\ ShapeViolation(profile)
        /\ route \in {"/meal-plan", "/workout-plan", "/nutrition-goals"})
        => (resp.status = 400 /\ llmCalls = 0 /\ calcCalls = 0)

----------------------------------------------------------------------------
(* Claims on generate_meal_plan, checked under SpecMeal *)

MealCalled == coach.fn = "generate_meal_plan"
Parsed == llm.kind = "content" /\ llm.text = <<"{", "data", "}">>

\* the payload is the well-formed one but for the missing key of day d
LacksOnly(d) ==
    /\ Parsed
    /\ llm.data = MealData([x \in Days \ {d} |-> GoodMealDay], <<"none", "">>)

\* C8: for an output that is well formed but lacks one weekday under `meals`,
\* generate_meal_plan fails with an error to its caller that names the missing
\* day.  Stated as claimed; the caller gets a fixed message.
C8_MissingDayNamed ==
    \A d \in Days :
        (MealCalled /\ LacksOnly(d)) => (~coach.ok /\ d \in Range(coach.error))

\* some item of day d has a nutrients object without fiber
NutrientsLackFiber(d) ==
    /\ d \in DOMAIN llm.data.meals
    /\ \E i \in 1..Len(llm.data.meals[d].items) :
           LET meal == llm.data.meals[d].items[i]
           IN  "nutrients" \in meal.keys /\ "fiber" \notin meal.nutrients

\* C9: for an output in which a meal item has a nutrients object without
\* fiber, validation fails and the error (raised inside, or given to the
\* caller) names a day of such an item and the field fiber.  Stated as
\* claimed; the message names the day only, and the caller gets neither.
C9_FiberAndDayNamed ==
    (MealCalled /\ Parsed /\ \E d \in Days : NutrientsLackFiber(d)) =>
        /\ ~coach.ok
        /\ \E d \in Days :
               /\ NutrientsLackFiber(d)
               /\ d \in Range(coach.error) \cup Range(coach.logged)
        /\ "fiber" \in Range(coach.error) \cup Range(coach.logged)

----------------------------------------------------------------------------
(* Claims on generate_workout_plan, checked under SpecWorkout *)

WorkoutCalled == coach.fn = "generate_workout_plan"

\* the payload reached the loops over weekly_schedule
ScheduleSeen == Parsed /\ "weekly_schedule" \in llm.data.top

RestStrings == {"rest", "Rest", "REST"}

\* [{"exercise": "Rest"}] as Exercise objects
RestSentinel == <<[exercise |-> "Rest", sets |-> None, duration |-> None]>>

\* C10: a day whose value is the string "rest" in any letter case is not
\* validated further (no validation error is about that day) and the
\* returned WorkoutPlan holds [{"exercise": "Rest"}] for it; a day whose
\* value is neither a list nor such a string makes the call fail.
C10_RestDays ==
    (WorkoutCalled /\ ScheduleSeen) =>
        \A d \in DOMAIN llm.data.weekly_schedule :
            LET v == llm.data.weekly_schedule[d]
            IN  /\ (v.type = "str" /\ v.s \in RestStrings) =>
                       /\ coach.logged \notin
                              {<<"Invalid exercise data for", d>>,
                               <<"Invalid exercise format in", d>>,
                               <<"Missing exercise name in", d>>,
                               <<"Exercise must have either sets or duration in", d>>}
                       /\ coach.ok => coach.plan.weekly_schedule[d] = RestSentinel
                /\ (v.type # "list" /\ ~(v.type = "str" /\ v.s \in RestStrings))
                       => ~coach.ok

C10_Witness ==
    /\ WorkoutCalled /\ coach.ok
    /\ llm.data.weekly_schedule["sunday"] = StrValue("REST")
    /\ coach.plan.weekly_schedule["sunday"] = RestSentinel

\* a day of a returned plan that is the single Rest sentinel
IsRestDay(exercises) ==
    Len(exercises) = 1 /\ exercises[1].exercise \in RestStrings

\* an Exercise with a name and, unless it is a rest, with sets or duration
EntryComplete(e) ==
    /\ e.exercise # ""
    /\ e.exercise \notin RestStrings => (e.sets # None \/ e.duration # None)

\* C11: generate_workout_plan returns a plan only if, on every day of it that
\* is not the single Rest sentinel, every entry has a non-empty exercise name
\* and, unless the name is "rest" in any case, sets or duration.  Stated as
\* claimed; the days under a key other than the seven looped over are
\* returned without that check.
C11_EveryEntryComplete ==
    (WorkoutCalled /\ coach.ok) =>
        \A d \in DOMAIN coach.plan.weekly_schedule :
            LET exercises == coach.plan.weekly_schedule[d]
            IN  IsRestDay(exercises)
                \/ \A i \in 1..Len(exercises) : EntryComplete(exercises[i])

\* the same on the seven days that lines 311-331 loop over
WeekdayEntriesComplete ==
    (WorkoutCalled /\ coach.ok) =>
        \A d \in Days :
            LET exercises == coach.plan.weekly_schedule[d]
            IN  IsRestDay(exercises)
                \/ \A i \in 1..Len(exercises) : EntryComplete(exercises[i])

----------------------------------------------------------------------------
(* Claims on the round trip from payload to plan, checked under SpecPlans *)

\* the meal-plan schema of the specification: the required top-level fields,
\* the seven days and no other, five items a day at least, item and portion
\* in each, complete nutrients where given, no negative total
MealSchemaOk(data) ==
    /\ MealTopFields \subseteq data.top
    /\ DOMAIN data.meals = Days
    /\ \A d \in Days :
           /\ data.meals[d].type = "list"
           /\ Len(data.meals[d].items) >= 5
           /\ \A i \in 1..Len(data.meals[d].items) :
                  LET m == data.meals[d].items[i]
                  IN  /\ {"item", "portion"} \subseteq m.keys
                      /\ "nutrients" \in m.keys =>
                             {"calories", "protein", "carbs", "fat", "fiber"}
                                 \subseteq m.nutrients
    /\ data.totals_ok

\* the workout-plan schema of the specification
WorkoutSchemaOk(data) ==
    /\ {"weekly_schedule", "intensity_level", "estimated_calories_burn"}
           \subseteq data.top
    /\ DOMAIN data.weekly_schedule = Days
    /\ \A d \in Days :
           LET v == data.weekly_schedule[d]
           IN  \/ v.type = "str" /\ v.s \in RestStrings
               \/ /\ v.type = "list"
                  /\ \A i \in 1..Len(v.items) :
                         LET e == v.items[i]
                         IN  /\ e.type = "dict"
                             /\ "exercise" \in e.keys /\ e.exercise # ""
                             /\ "sets" \in e.keys => e.sets # ""
                             /\ "duration" \in e.keys => e.duration # ""
                             /\ e.exercise \notin {"rest", "Rest", "REST"} =>
                                    e.keys \cap {"sets", "duration"} # {}
    /\ data.intensity_level \in
           {<<"l", "o", "w">>, <<"m", "e", "d", "i", "u", "m">>,
            <<"h", "i", "g", "h">>, <<"L", "o", "w">>, <<"H", "I", "G", "H">>}
    /\ data.calories_ok

MealSchemaCase == MealCalled /\ Parsed /\ MealSchemaOk(llm.data)
WorkoutSchemaCase == WorkoutCalled /\ Parsed /\ WorkoutSchemaOk(llm.data)

\* the returned MealPlan has every field of the payload
MealUnchanged ==
    /\ llm.data.top \subseteq coach.plan.top
    /\ DOMAIN coach.plan.meals = DOMAIN llm.data.meals
    /\ \A d \in DOMAIN llm.data.meals :
           /\ Len(coach.plan.meals[d]) = Len(llm.data.meals[d].items)
           /\ \A i \in 1..Len(llm.data.meals[d].items) :
                  /\ llm.data.meals[d].items[i].keys
                         \subseteq coach.plan.meals[d][i].keys
                  /\ llm.data.meals[d].items[i].nutrients
                         \subseteq coach.plan.meals[d][i].nutrients

\* the Exercise p has the declared fields of the entry e, with their values
ExerciseKept(e, p) ==
    /\ p.exercise = e.exercise
    /\ p.sets = (IF "sets" \in e.keys THEN e.sets ELSE None)
    /\ p.duration = (IF "duration" \in e.keys THEN e.duration ELSE None)

\* the three intensity levels
IntensityEnum ==
    {<<"l", "o", "w">>, <<"m", "e", "d", "i", "u", "m">>, <<"h", "i", "g", "h">>}

\* a is b with its capital letters in lower case
SameLetters(a, b) ==
    /\ Len(a) = Len(b)
    /\ \A i \in 1..Len(a) :
           \/ a[i] = b[i]
           \/ <<b[i], a[i]>> \in {<<"L", "l">>, <<"O", "o">>, <<"W", "w">>,
                                  <<"H", "h">>, <<"I", "i">>, <<"G", "g">>}

\* the returned WorkoutPlan has every field of the payload with its value
WorkoutUnchanged ==
    /\ llm.data.top \subseteq coach.plan.top
    /\ coach.plan.intensity_level = llm.data.intensity_level
    /\ DOMAIN coach.plan.weekly_schedule = DOMAIN llm.data.weekly_schedule
    /\ \A d \in DOMAIN llm.data.weekly_schedule :
           LET v == llm.data.weekly_schedule[d]
               day == coach.plan.weekly_schedule[d]
           IN  /\ v.type = "list"
               /\ Len(day) = Len(v.items)
               /\ \A i \in 1..Len(v.items) :
                      /\ v.items[i].keys \subseteq {"exercise", "sets", "duration"}
                      /\ ExerciseKept(v.items[i], day[i])

\* C12 as claimed: for every generation output that satisfies the meal-plan
\* (workout-plan) schema, validation succeeds and the returned plan holds
\* every field of the payload under the same name with the same value.  The
\* code lower-cases intensity_level, replaces a "rest" string and ignores
\* keys that the models do not declare.
C12_RoundTripUnchanged ==
    /\ MealSchemaCase => (coach.ok /\ MealUnchanged)
    /\ WorkoutSchemaCase => (coach.ok /\ WorkoutUnchanged)

\* C12: for every generation output that satisfies the meal-plan
\* (workout-plan) schema, validation succeeds and the returned plan holds
\* every field that the plan models declare, under the same name and with the
\* same value, except that intensity_level is lower-cased and a day given as
\* the string "rest" (any case) becomes [{"exercise": "Rest"}]; keys that the
\* models do not declare are left out of the plan.
C12_DeclaredFieldsKept ==
    /\ MealSchemaCase =>
           /\ coach.ok
           /\ coach.plan.top =
                  llm.data.top \cap
                      {"meals", "total_calories", "total_protein", "total_carbs",
                       "total_fat", "total_fiber", "meal_timing",
                       "hydration_guidelines", "preparation_tips",
                       "storage_instructions"}
           /\ DOMAIN coach.plan.meals = DOMAIN llm.data.meals
           /\ \A d \in DOMAIN llm.data.meals :
                  /\ Len(coach.plan.meals[d]) = Len(llm.data.meals[d].items)
                  /\ \A i \in 1..Len(llm.data.meals[d].items) :
                         LET m == llm.data.meals[d].items[i]
                             q == coach.plan.meals[d][i]
                         IN  /\ q.keys = m.keys \cap
                                    {"item", "portion", "nutrients",
                                     "preparation_time", "difficulty_level",
                                     "alternatives"}
                             /\ q.nutrients = m.nutrients \cap
                                    {"calories", "protein", "carbs", "fat",
                                     "fiber", "vitamins"}
    /\ WorkoutSchemaCase =>
           /\ coach.ok
           /\ coach.plan.top =
                  llm.data.top \cap
                      {"weekly_schedule", "intensity_level",
                       "estimated_calories_burn", "warm_up", "cool_down",
                       "safety_precautions", "progression_tips"}
           /\ SameLetters(coach.plan.intensity_level,
                          llm.data.intensity_level)
           /\ coach.plan.intensity_level \in IntensityEnum
           /\ DOMAIN coach.plan.weekly_schedule = DOMAIN llm.data.weekly_schedule
           /\ \A d \in DOMAIN llm.data.weekly_schedule :
                  LET v == llm.data.weekly_schedule[d]
                      day == coach.plan.weekly_schedule[d]
                  IN  IF v.type = "str" THEN day = RestSentinel
                      ELSE /\ Len(day) = Len(v.items)
                           /\ \A i \in 1..Len(v.items) :
                                  ExerciseKept(v.items[i], day[i])

\* a plan came back for a payload whose intensity_level is "Low"
C12_Witness ==
    /\ WorkoutSchemaCase /\ coach.ok
    /\ llm.data.intensity_level = <<"L", "o", "w">>
    /\ coach.plan.intensity_level = <<"l", "o", "w">>

----------------------------------------------------------------------------
(* Claims on the plans returned *)

\* the payload got as far as the WorkoutPlan constructor with nothing else
\* for it to reject
OnlyIntensityInQuestion ==
    /\ WorkoutCalled /\ Parsed
    /\ WorkoutSchemaOk([llm.data EXCEPT !.intensity_level = <<"l", "o", "w">>])

\* C18 as claimed: every WorkoutPlan returned has an intensity_level that is
\* exactly "low", "medium" or "high", and an output whose intensity_level is
\* any other string, compared without regard to case, makes the call fail.
\* The pattern of the model lets other strings through.
C18_IntensityEnum ==
    /\ (WorkoutCalled /\ coach.ok) => coach.plan.intensity_level \in IntensityEnum
    /\ (OnlyIntensityInQuestion
            /\ \A l \in IntensityEnum : ~SameLetters(l, llm.data.intensity_level))
           => ~coach.ok

\* C17 as claimed: every MealPlan returned by generate_meal_plan has under
\* meals exactly the seven keys monday..sunday and no other key, each with at
\* least 5 items.  validate_meals compares the keys in lower case, so a
\* further key such as "Monday" is returned with the plan.
C17_SevenDaysFiveItems ==
    (MealCalled /\ coach.ok) =>
        /\ DOMAIN coach.plan.meals =
               {"monday", "tuesday", "wednesday", "thursday", "friday",
                "saturday", "sunday"}
        /\ \A d \in DOMAIN coach.plan.meals : Len(coach.plan.meals[d]) >= 5

\* the part of C17 that holds: the seven days are there with 5 items or more
SevenDaysPresent ==
    (MealCalled /\ coach.ok) =>
        \A d \in Days :
            d \in DOMAIN coach.plan.meals /\ Len(coach.plan.meals[d]) >= 5

----------------------------------------------------------------------------
(* Claims on the limiter, checked under SpecLimit *)

\* what the limiter is claimed to do with a request from c to r: turned away
\* without the handler when ten or more requests of the window came before it
EleventhRejected(c, r) ==
    (hits[c][r] + (IF skipped[c][r] THEN 1 ELSE 0) >= 10) =>
        (resp'.status = 429 /\ calcCalls' = 0)

\* C13 as claimed: the 11th request arriving within the window from one
\* address at a limited route is rejected by the limiter, its handler not
\* run.  A request that FastAPI answers with 422 never reaches the limiter
\* and is not counted.
C13_EleventhArrivalRejected ==
    [][\A c \in Clients :
          /\ RootRequest(c) => EleventhRejected(c, "/")
          /\ \A body \in LimitProfiles :
                 NutritionGoalsRequest(c, body) =>
                     EleventhRejected(c, "/nutrition-goals")]_vars

\* the limiter's verdict on a request from c to r that reached it
Verdict(c, r) ==
    /\ hits[c][r] < 10 =>
           /\ resp'.status \in {200, 400}
           /\ hits'[c][r] = hits[c][r] + 1
    /\ hits[c][r] >= 10 =>
           /\ resp'.status = 429
           /\ calcCalls' = 0 /\ calc'.fn = "none"
    /\ \A c2 \in Clients : \A r2 \in LimitedRoutes :
           <<c2, r2>> # <<c, r>> => hits'[c2][r2] = hits[c2][r2]

\* C13: of the requests from one address that reach the limiter of one route
\* within its window (the requests to that route whose body passes request
\* validation), the first 10 are admitted and the 11th is rejected by the
\* limiter with its handler body not run; the counters of other routes and
\* other addresses are not touched, and a request answered with 422 is not
\* counted.
C13_EleventhCountedRejected ==
    [][\A c \in Clients :
          /\ RootRequest(c) => Verdict(c, "/")
          /\ \A body \in LimitProfiles :
                 NutritionGoalsRequest(c, body) =>
                     IF HealthInputValid(body)
                         THEN Verdict(c, "/nutrition-goals")
                     ELSE resp'.status = 422 /\ hits' = hits]_vars

\* the 11th counted request of a window was turned away
C13_Witness ==
    /\ route = "/nutrition-goals" /\ pc = "done"
    /\ hits[client][route] = 11
    /\ resp.status = 429
    /\ calcCalls = 0

----------------------------------------------------------------------------
(* Claims on the HTTP handlers, checked under Spec and SpecFair *)

\* C14 as claimed: POST /analyze-meal with a non-empty body {items: [...]}
\* is answered with status 200.  The handler calls a method that HealthCoach
\* does not have.
C14_AnalyzeMealIs200 ==
    (route = "/analyze-meal" /\ pc = "done"
        /\ meal_data.type = "dict" /\ "items" \in meal_data.keys)
        => resp.status = 200

\* the generation output of the request at hand failed parsing or validation
MalformedOutput ==
    /\ pc = "done" /\ coach.fn # "none"
    /\ llm.kind = "content" /\ ~coach.ok

\* C15: when the generation output fails parsing or schema validation, the
\* response of /meal-plan (of /workout-plan) is one and the same for every
\* malformed output, and nothing of the output or of the validation error
\* about it is in the response.
C15_GenericMessage ==
    MalformedOutput =>
        /\ route = "/meal-plan" =>
               resp = [status |-> 400,
                       detail |-> <<"Error generating meal plan:",
                                    "Failed to parse the meal plan response from the AI model">>]
        /\ route = "/workout-plan" =>
               resp = [status |-> 500, detail |-> <<"Internal Server Error">>]
        /\ Range(resp.detail) \cap (Range(llm.text) \cup Range(coach.logged)) = {}

\* /meal-plan answered an output that lacks a day
C15_Witness ==
    /\ MalformedOutput /\ route = "/meal-plan"
    /\ coach.logged = <<"Missing", "monday", "in meal plan data">>
    /\ resp.status = 400

C20_Terminates ==
    /\ (pc = "awaiting") ~> (pc = "done")
    /\ [](llm.kind = "timeout" =>
              /\ pc = "done"
              /\ ~coach.ok /\ coach.plan = NoPlan
              /\ resp.status \in {400, 500})

\* an invocation ended with the error of a timeout
C20_Witness ==
    /\ pc = "done" /\ route = "/meal-plan"
    /\ llm.kind = "timeout"
    /\ coach.error = <<"Error generating meal plan:", "Request timed out.">>

====
